---- MODULE Spec2Model ----
(***************************************************************************)
(* Inverted index with Elias Gamma / Elias Delta gap compression            *)
(* (src/Inverted_index.py).                                                 *)
(*                                                                          *)
(* A bitstring is a Python str over '0'/'1'; it is modelled as a sequence   *)
(* of the one-character strings "0" and "1".  A text is a sequence of       *)
(* characters.  A dict is a function whose DOMAIN is its key set.  A call   *)
(* that can raise returns a record whose field error is "none" or the name  *)
(* of the exception.  Python indices are kept 0-based; s[i] is s[i + 1].    *)
(***************************************************************************)
EXTENDS Integers, Sequences, FiniteSets, TLC

VARIABLES
    pc,             \* stage the caller has reached
    call,           \* name of the function called last ("none" before any call)
    origin,         \* "caller": data made by the caller; "storage": read back
    codec,          \* codec of the encoder/compressor that ran ("none" before)
    dcodec,         \* codec of the decoder/decompressor that ran ("none" before)
    error,          \* "none", or the exception that left the last call
    n,              \* argument of the last elias_*_encode call
    codeword,       \* value returned by the last elias_*_encode call
    xs,             \* the integers whose codewords make up bits, in order
    tail,           \* trailing fragment of a codeword left at the end of bits
    truncated,      \* whether bits was cut short after it was encoded
    bits,           \* bitstring held by the caller (encoder output, decoder input)
    results,        \* list returned by the last elias_*_decode call
    documents,      \* argument of build_inverted_index: <<doc_id, text>> in dict order
    inverted_index, \* plaintext index held by the caller (term -> postings)
    compressed,     \* compressed index held by the caller (term -> bitstring)
    decompressed,   \* value returned by decompress_index_*
    recompressed    \* compress_index_* applied to decompressed

vars == <<pc, call, origin, codec, dcodec, error,
          n, codeword, xs, tail, truncated, bits, results,
          documents, inverted_index, compressed, decompressed, recompressed>>

codecVars == <<n, codeword, xs, tail, truncated, bits, results>>
indexVars == <<documents, inverted_index, compressed, decompressed, recompressed>>

----------------------------------------------------------------------------
(* Bounds of the model *)

MaxN == 8          \* largest integer handed to an encoder
NegN == 2          \* encoders are also handed 0, -1, ..., -NegN
MaxLen == 3        \* most codewords concatenated into one bitstring
MaxStored == 7     \* longest arbitrary bitstring handed to a decoder
MaxDocId == 3      \* largest document identifier in a posting list
MaxPostings == 2   \* longest posting list of a caller-made index
MaxBits == 5       \* longest arbitrary bitstring of a stored compressed index
MaxDocs == 2       \* most documents in a corpus (identifiers 1..MaxDocs)
MaxChars == 4      \* most characters in a corpus, all texts together

----------------------------------------------------------------------------
(* Python primitives *)

Min(a, b) == IF a < b THEN a ELSE b

\* s[a:b] for 0 <= a, 0 <= b: slicing clips at len(s) and never raises
Slice(s, a, b) == SubSeq(s, a + 1, Min(b, Len(s)))

\* '0' * k
RECURSIVE Zeros(_)
Zeros(k) == IF k <= 0 THEN <<>> ELSE <<"0">> \o Zeros(k - 1)

\* bin(m)[2:] for m >= 0: base-2 digits, most significant first
RECURSIVE bin(_)
bin(m) ==
    IF m < 2 THEN <<IF m = 1 THEN "1" ELSE "0">>
    ELSE bin(m \div 2) \o <<IF m % 2 = 1 THEN "1" ELSE "0">>

\* int(s, 2) for non-empty s over '0'/'1'
RECURSIVE int2(_)
int2(s) ==
    IF s = <<>> THEN 0
    ELSE 2 * int2(SubSeq(s, 1, Len(s) - 1)) + (IF s[Len(s)] = "1" THEN 1 ELSE 0)

----------------------------------------------------------------------------
(* Elias Gamma *)

elias_gamma_encode_wide(m) ==
    IF m <= 0 THEN [error |-> "ValueError", bits |-> <<>>]
    ELSE LET binary == bin(m)
             N == Len(binary)
             prefix == Zeros(N)
         IN  [error |-> "none", bits |-> prefix \o binary]

elias_gamma_encode_nonneg(m) ==
    IF m < 0 THEN [error |-> "ValueError", bits |-> <<>>]
    ELSE LET binary == bin(m)
             N == Len(binary) - 1
             prefix == Zeros(N)
         IN  [error |-> "none", bits |-> prefix \o binary]

elias_gamma_encode(m) ==
    IF m <= 0 THEN [error |-> "ValueError", bits |-> <<>>]
    ELSE LET binary == bin(m)
             N == Len(binary) - 1
             prefix == Zeros(N)
         IN  [error |-> "none", bits |-> prefix \o binary]

\* the inner loop: while i < n and bitstring[i] == '0': i += 1
RECURSIVE SkipZeros(_, _)
SkipZeros(bitstring, i) ==
    IF i < Len(bitstring) /\ bitstring[i + 1] = "0"
    THEN SkipZeros(bitstring, i + 1)
    ELSE i

\* the outer loop of elias_gamma_decode, from position i with results so far
RECURSIVE GammaDecodeLoop(_, _, _)
GammaDecodeLoop(bitstring, i, res) ==
    IF ~(i < Len(bitstring)) THEN [error |-> "none", results |-> res]
    ELSE LET j == SkipZeros(bitstring, i)
             count_zeros == j - i
             num_bits == count_zeros + 1
             number_bits == Slice(bitstring, j, j + num_bits)
         IN  IF j >= Len(bitstring) THEN [error |-> "none", results |-> res]
             ELSE IF j + num_bits > Len(bitstring)
                  THEN [error |-> "none", results |-> res]
             ELSE IF number_bits = <<>>
                  THEN [error |-> "ValueError", results |-> res]
             ELSE GammaDecodeLoop(bitstring, j + num_bits,
                                  Append(res, int2(number_bits)))

\* the loop without the check "if i + num_bits > n: break"
RECURSIVE GammaDecodeLoopUnchecked(_, _, _)
GammaDecodeLoopUnchecked(bitstring, i, res) ==
    IF ~(i < Len(bitstring)) THEN [error |-> "none", results |-> res]
    ELSE LET j == SkipZeros(bitstring, i)
             count_zeros == j - i
             num_bits == count_zeros + 1
             number_bits == Slice(bitstring, j, j + num_bits)
         IN  IF j >= Len(bitstring) THEN [error |-> "none", results |-> res]
             ELSE IF number_bits = <<>>
                  THEN [error |-> "ValueError", results |-> res]
             ELSE GammaDecodeLoopUnchecked(bitstring, j + num_bits,
                                           Append(res, int2(number_bits)))

elias_gamma_decode_unchecked(bitstring) ==
    GammaDecodeLoopUnchecked(bitstring, 0, <<>>)

elias_gamma_decode(bitstring) == GammaDecodeLoop(bitstring, 0, <<>>)

----------------------------------------------------------------------------
(* Elias Delta *)

elias_delta_encode_fulloffset(m) ==
    IF m <= 0 THEN [error |-> "ValueError", bits |-> <<>>]
    ELSE LET binary == bin(m)
             L == Len(binary)
             gamma_L == elias_gamma_encode(L)
             offset == binary
         IN  IF gamma_L.error # "none" THEN gamma_L
             ELSE [error |-> "none", bits |-> gamma_L.bits \o offset]

elias_delta_encode(m) ==
    IF m <= 0 THEN [error |-> "ValueError", bits |-> <<>>]
    ELSE LET binary == bin(m)
             L == Len(binary)
             gamma_L == elias_gamma_encode(L)
             offset == IF L > 1 THEN Slice(binary, 1, Len(binary)) ELSE <<>>
         IN  IF gamma_L.error # "none" THEN gamma_L
             ELSE [error |-> "none", bits |-> gamma_L.bits \o offset]

\* the outer loop of elias_delta_decode, from position i with results so far
RECURSIVE DeltaDecodeLoop(_, _, _)
DeltaDecodeLoop(bitstring, i, res) ==
    IF ~(i < Len(bitstring)) THEN [error |-> "none", results |-> res]
    ELSE LET j == SkipZeros(bitstring, i)
             count_zeros == j - i
             num_bits_L == count_zeros + 1
             L_bits == Slice(bitstring, j, j + num_bits_L)
             k == j + num_bits_L
             L_val == int2(L_bits)
             offset_bits == IF L_val - 1 > 0
                            THEN Slice(bitstring, k, k + (L_val - 1))
                            ELSE <<>>
             next == IF L_val - 1 > 0 THEN k + (L_val - 1) ELSE k
             orig_binary == <<"1">> \o offset_bits
         IN  IF j >= Len(bitstring) THEN [error |-> "none", results |-> res]
             ELSE IF j + num_bits_L > Len(bitstring)
                  THEN [error |-> "none", results |-> res]
             ELSE IF L_bits = <<>>
                  THEN [error |-> "ValueError", results |-> res]
             ELSE IF L_val - 1 > 0 /\ k + (L_val - 1) > Len(bitstring)
                  THEN [error |-> "none", results |-> res]
             ELSE DeltaDecodeLoop(bitstring, next,
                                  Append(res, int2(orig_binary)))

\* the loop reading the offset right after the zero run, as if the length
\* prefix had taken no bits beyond its zeros
RECURSIVE DeltaDecodeLoopNoAdvance(_, _, _)
DeltaDecodeLoopNoAdvance(bitstring, i, res) ==
    IF ~(i < Len(bitstring)) THEN [error |-> "none", results |-> res]
    ELSE LET j == SkipZeros(bitstring, i)
             count_zeros == j - i
             num_bits_L == count_zeros + 1
             L_bits == Slice(bitstring, j, j + num_bits_L)
             k == j + 1
             L_val == int2(L_bits)
             offset_bits == IF L_val - 1 > 0
                            THEN Slice(bitstring, k, k + (L_val - 1))
                            ELSE <<>>
             next == IF L_val - 1 > 0 THEN k + (L_val - 1) ELSE k
             orig_binary == <<"1">> \o offset_bits
         IN  IF j >= Len(bitstring) THEN [error |-> "none", results |-> res]
             ELSE IF j + num_bits_L > Len(bitstring)
                  THEN [error |-> "none", results |-> res]
             ELSE IF L_bits = <<>>
                  THEN [error |-> "ValueError", results |-> res]
             ELSE IF L_val - 1 > 0 /\ k + (L_val - 1) > Len(bitstring)
                  THEN [error |-> "none", results |-> res]
             ELSE DeltaDecodeLoopNoAdvance(bitstring, next,
                                           Append(res, int2(orig_binary)))

elias_delta_decode_noadvance(bitstring) ==
    DeltaDecodeLoopNoAdvance(bitstring, 0, <<>>)

elias_delta_decode(bitstring) == DeltaDecodeLoop(bitstring, 0, <<>>)

----------------------------------------------------------------------------

(* Index compression *)

EmptyMap == [t \in {} |-> <<>>]

\* the loop "for doc_id in postings" of compress_index_gamma, from the k-th
\* posting (0-based) with prev and bits so far; an exception ends it
RECURSIVE GammaPostingsLoop(_, _, _, _)
GammaPostingsLoop(postings, k, prev, acc) ==
    IF k >= Len(postings) THEN [error |-> "none", bits |-> acc]
    ELSE LET doc_id == postings[k + 1]
             diff == doc_id - prev
             r == elias_gamma_encode(diff)
         IN  IF r.error # "none" THEN [error |-> r.error, bits |-> <<>>]
             ELSE GammaPostingsLoop(postings, k + 1, doc_id, acc \o r.bits)

\* the loop with "prev = doc_id" left out
RECURSIVE GammaPostingsLoopNoPrev(_, _, _, _)
GammaPostingsLoopNoPrev(postings, k, prev, acc) ==
    IF k >= Len(postings) THEN [error |-> "none", bits |-> acc]
    ELSE LET doc_id == postings[k + 1]
             diff == doc_id - prev
             r == elias_gamma_encode(diff)
         IN  IF r.error # "none" THEN [error |-> r.error, bits |-> <<>>]
             ELSE GammaPostingsLoopNoPrev(postings, k + 1, prev, acc \o r.bits)

\* the loop "for doc_id in postings" of compress_index_delta
RECURSIVE DeltaPostingsLoop(_, _, _, _)
DeltaPostingsLoop(postings, k, prev, acc) ==
    IF k >= Len(postings) THEN [error |-> "none", bits |-> acc]
    ELSE LET doc_id == postings[k + 1]
             diff == doc_id - prev
             r == elias_delta_encode(diff)
         IN  IF r.error # "none" THEN [error |-> r.error, bits |-> <<>>]
             ELSE DeltaPostingsLoop(postings, k + 1, doc_id, acc \o r.bits)

\* compress_index_gamma with prev never advanced
compress_index_gamma_noprev(index) ==
    LET per == [t \in DOMAIN index |->
                   GammaPostingsLoopNoPrev(index[t], 0, 0, <<>>)]
    IN  IF \E t \in DOMAIN index : per[t].error # "none"
        THEN [error |-> "ValueError", value |-> EmptyMap]
        ELSE [error |-> "none", value |-> [t \in DOMAIN index |-> per[t].bits]]

\* An exception raised for any term leaves the function: the local dict
\* compressed is dropped and nothing is returned, whichever term the dict
\* order reaches first.  The argument is only read.
compress_index_gamma(index) ==
    LET per == [t \in DOMAIN index |-> GammaPostingsLoop(index[t], 0, 0, <<>>)]
    IN  IF \E t \in DOMAIN index : per[t].error # "none"
        THEN [error |-> "ValueError", value |-> EmptyMap]
        ELSE [error |-> "none", value |-> [t \in DOMAIN index |-> per[t].bits]]

\* compress_index_delta with the encoder's exception caught per term and an
\* empty bitstring stored for the term
compress_index_delta_swallow(index) ==
    LET per == [t \in DOMAIN index |-> DeltaPostingsLoop(index[t], 0, 0, <<>>)]
    IN  [error |-> "none", value |-> [t \in DOMAIN index |-> per[t].bits]]

compress_index_delta(index) ==
    LET per == [t \in DOMAIN index |-> DeltaPostingsLoop(index[t], 0, 0, <<>>)]
    IN  IF \E t \in DOMAIN index : per[t].error # "none"
        THEN [error |-> "ValueError", value |-> EmptyMap]
        ELSE [error |-> "none", value |-> [t \in DOMAIN index |-> per[t].bits]]

\* the loop "for d in diffs" of the decompressors: cum += d; append(cum)
RECURSIVE CumulativeLoop(_, _, _, _)
CumulativeLoop(diffs, k, cum, postings) ==
    IF k >= Len(diffs) THEN postings
    ELSE LET d == diffs[k + 1]
         IN  CumulativeLoop(diffs, k + 1, cum + d, Append(postings, cum + d))

\* the loop appending d itself: no running sum
RECURSIVE NoSumLoop(_, _, _, _)
NoSumLoop(diffs, k, cum, postings) ==
    IF k >= Len(diffs) THEN postings
    ELSE LET d == diffs[k + 1]
         IN  NoSumLoop(diffs, k + 1, cum + d, Append(postings, d))

\* the loop appending cum before d is added to it
RECURSIVE LateSumLoop(_, _, _, _)
LateSumLoop(diffs, k, cum, postings) ==
    IF k >= Len(diffs) THEN postings
    ELSE LET d == diffs[k + 1]
         IN  LateSumLoop(diffs, k + 1, cum + d, Append(postings, cum))

decompress_index_gamma_nosum(compressed_index) ==
    LET dec == [t \in DOMAIN compressed_index |->
                   elias_gamma_decode(compressed_index[t])]
    IN  IF \E t \in DOMAIN compressed_index : dec[t].error # "none"
        THEN [error |-> "ValueError", value |-> EmptyMap]
        ELSE [error |-> "none",
              value |-> [t \in DOMAIN compressed_index |->
                            NoSumLoop(dec[t].results, 0, 0, <<>>)]]

decompress_index_gamma(compressed_index) ==
    LET dec == [t \in DOMAIN compressed_index |->
                   elias_gamma_decode(compressed_index[t])]
    IN  IF \E t \in DOMAIN compressed_index : dec[t].error # "none"
        THEN [error |-> "ValueError", value |-> EmptyMap]
        ELSE [error |-> "none",
              value |-> [t \in DOMAIN compressed_index |->
                            CumulativeLoop(dec[t].results, 0, 0, <<>>)]]

decompress_index_delta_latesum(compressed_index) ==
    LET dec == [t \in DOMAIN compressed_index |->
                   elias_delta_decode(compressed_index[t])]
    IN  IF \E t \in DOMAIN compressed_index : dec[t].error # "none"
        THEN [error |-> "ValueError", value |-> EmptyMap]
        ELSE [error |-> "none",
              value |-> [t \in DOMAIN compressed_index |->
                            LateSumLoop(dec[t].results, 0, 0, <<>>)]]

decompress_index_delta(compressed_index) ==
    LET dec == [t \in DOMAIN compressed_index |->
                   elias_delta_decode(compressed_index[t])]
    IN  IF \E t \in DOMAIN compressed_index : dec[t].error # "none"
        THEN [error |-> "ValueError", value |-> EmptyMap]
        ELSE [error |-> "none",
              value |-> [t \in DOMAIN compressed_index |->
                            CumulativeLoop(dec[t].results, 0, 0, <<>>)]]

----------------------------------------------------------------------------
(* Index building *)

\* str.lower() on the characters of the model's alphabet
LowerChar(c) ==
    CASE c = "A" -> "a"
      [] c = "B" -> "b"
      [] OTHER -> c

Lower(text) == [i \in 1..Len(text) |-> LowerChar(text[i])]

\* the characters \w matches, among those of the model's alphabet
WordChars == {"a", "b", "A", "B", "_"}

\* re.findall(r'\w+', s): the maximal runs of word characters, left to right;
\* cur is the run being read at position i (0-based), words those found
RECURSIVE FindAllLoop(_, _, _, _)
FindAllLoop(s, i, cur, words) ==
    IF i >= Len(s)
    THEN IF cur = <<>> THEN words ELSE Append(words, cur)
    ELSE IF s[i + 1] \in WordChars
         THEN FindAllLoop(s, i + 1, Append(cur, s[i + 1]), words)
         ELSE FindAllLoop(s, i + 1, <<>>,
                          IF cur = <<>> THEN words ELSE Append(words, cur))

findall(s) == FindAllLoop(s, 0, <<>>, <<>>)

\* the loop "for term in words" for one document, from the j-th word
RECURSIVE TermLoop(_, _, _, _)
TermLoop(words, j, doc_id, index) ==
    IF j >= Len(words) THEN index
    ELSE LET term == words[j + 1]
             idx1 == IF term \notin DOMAIN index
                     THEN (term :> <<>>) @@ index
                     ELSE index
             lst == idx1[term]
             idx2 == IF Len(lst) = 0 \/ lst[Len(lst)] # doc_id
                     THEN [idx1 EXCEPT ![term] = Append(lst, doc_id)]
                     ELSE idx1
         IN  TermLoop(words, j + 1, doc_id, idx2)

\* the loop "for doc_id, text in documents.items()", from the k-th document
RECURSIVE DocLoop(_, _, _)
DocLoop(docs, k, index) ==
    IF k >= Len(docs) THEN index
    ELSE LET doc_id == docs[k + 1][1]
             text == docs[k + 1][2]
             words == findall(Lower(text))
         IN  DocLoop(docs, k + 1, TermLoop(words, 0, doc_id, index))

\* sorted(set(lst)): the distinct elements in ascending order
RECURSIVE SortedSet(_)
SortedSet(S) ==
    IF S = {} THEN <<>>
    ELSE LET m == CHOOSE x \in S : \A y \in S : x <= y
         IN  <<m>> \o SortedSet(S \ {m})

sorted_set(lst) == SortedSet({lst[i] : i \in 1..Len(lst)})

\* build_inverted_index without the final sorted(set(...)) pass
build_inverted_index_nosort(docs) == DocLoop(docs, 0, EmptyMap)

build_inverted_index(docs) ==
    LET index == DocLoop(docs, 0, EmptyMap)
    IN  [term \in DOMAIN index |-> sorted_set(index[term])]

----------------------------------------------------------------------------
(* Sets the inputs are drawn from *)

Bit == {"0", "1"}

\* all sequences over S of length at most k
SeqsUpTo(S, k) == UNION {[1..m -> S] : m \in 0..k}

\* all dicts with keys among K and values in V
Dicts(K, V) == UNION {[D -> V] : D \in SUBSET K}

\* the terms of the indexes handed to the compressors and decompressors
Terms == {<<"a">>, <<"b">>}

\* posting lists a caller may hand over, valid or not
PostingLists == SeqsUpTo((0 - 1)..MaxDocId, MaxPostings)

\* the characters of the texts: a lower-case letter, an upper-case letter
\* and a separator
Alphabet == {"a", "B", " "}

\* the dicts doc_id -> text with distinct keys among ids, in every insertion
\* order, whose texts have at most c characters together
RECURSIVE Corpora(_, _)
Corpora(ids, c) ==
    {<<>>} \cup
    UNION {UNION {LET rests == Corpora(ids \ {d}, c - m)
                  IN  {<<<<d, t>>>> \o rest : t \in [1..m -> Alphabet], rest \in rests}
                  : m \in 0..c}
           : d \in ids}

----------------------------------------------------------------------------
(* The codec, as its callers use it *)

\* Nothing has been called: the caller holds an empty bitstring, or a
\* bitstring read back from storage whose origin is unknown.
InitCodec ==
    /\ pc = "start"
    /\ call = "none"
    /\ \/ origin = "caller" /\ bits = <<>>
       \/ origin = "storage" /\ bits \in SeqsUpTo(Bit, MaxStored) \ {<<>>}
    /\ codec = "none"
    /\ dcodec = "none"
    /\ error = "none"
    /\ n = 0
    /\ codeword = <<>>
    /\ xs = <<>>
    /\ tail = <<>>
    /\ truncated = FALSE
    /\ results = <<>>
    /\ documents = <<>>
    /\ inverted_index = EmptyMap
    /\ compressed = EmptyMap
    /\ decompressed = EmptyMap
    /\ recompressed = EmptyMap

\* bits += elias_gamma_encode(m)
GammaEncode(m) ==
    /\ pc \in {"start", "encoded"}
    /\ origin = "caller"
    /\ codec \in {"none", "gamma"}
    /\ Len(xs) < MaxLen
    /\ LET r == elias_gamma_encode(m)
       IN  /\ call' = "elias_gamma_encode"
           /\ n' = m
           /\ error' = r.error
           /\ IF r.error # "none"
              THEN /\ pc' = "raised"
                   /\ UNCHANGED <<codec, codeword, xs, bits>>
              ELSE /\ pc' = "encoded"
                   /\ codec' = "gamma"
                   /\ codeword' = r.bits
                   /\ xs' = Append(xs, m)
                   /\ bits' = bits \o r.bits
    /\ UNCHANGED <<origin, dcodec, tail, truncated, results>>
    /\ UNCHANGED indexVars

\* bits += elias_delta_encode(m)
DeltaEncode(m) ==
    /\ pc \in {"start", "encoded"}
    /\ origin = "caller"
    /\ codec \in {"none", "delta"}
    /\ Len(xs) < MaxLen
    /\ LET r == elias_delta_encode(m)
       IN  /\ call' = "elias_delta_encode"
           /\ n' = m
           /\ error' = r.error
           /\ IF r.error # "none"
              THEN /\ pc' = "raised"
                   /\ UNCHANGED <<codec, codeword, xs, bits>>
              ELSE /\ pc' = "encoded"
                   /\ codec' = "delta"
                   /\ codeword' = r.bits
                   /\ xs' = Append(xs, m)
                   /\ bits' = bits \o r.bits
    /\ UNCHANGED <<origin, dcodec, tail, truncated, results>>
    /\ UNCHANGED indexVars

\* The bitstring loses its last k bits (k at least 1, at most the whole last
\* codeword): what is left of the last codeword is a proper prefix of it.
Truncate(k) ==
    /\ pc = "encoded"
    /\ k \in 1..Len(codeword)
    /\ pc' = "truncated"
    /\ call' = "none"
    /\ truncated' = TRUE
    /\ bits' = SubSeq(bits, 1, Len(bits) - k)
    /\ tail' = SubSeq(codeword, 1, Len(codeword) - k)
    /\ xs' = SubSeq(xs, 1, Len(xs) - 1)
    /\ UNCHANGED <<origin, codec, dcodec, error, n, codeword, results>>
    /\ UNCHANGED indexVars

\* results = elias_gamma_decode(bits)
GammaDecode ==
    /\ pc \in {"start", "encoded", "truncated"}
    /\ codec \in {"none", "gamma"}
    /\ LET r == elias_gamma_decode(bits)
       IN  /\ error' = r.error
           /\ results' = IF r.error # "none" THEN results ELSE r.results
           /\ pc' = IF r.error # "none" THEN "raised" ELSE "decoded"
    /\ call' = "elias_gamma_decode"
    /\ dcodec' = "gamma"
    /\ UNCHANGED <<origin, codec, n, codeword, xs, tail, truncated, bits>>
    /\ UNCHANGED indexVars

\* results = elias_delta_decode(bits)
DeltaDecode ==
    /\ pc \in {"start", "encoded", "truncated"}
    /\ codec \in {"none", "delta"}
    /\ LET r == elias_delta_decode(bits)
       IN  /\ error' = r.error
           /\ results' = IF r.error # "none" THEN results ELSE r.results
           /\ pc' = IF r.error # "none" THEN "raised" ELSE "decoded"
    /\ call' = "elias_delta_decode"
    /\ dcodec' = "delta"
    /\ UNCHANGED <<origin, codec, n, codeword, xs, tail, truncated, bits>>
    /\ UNCHANGED indexVars

NextCodec ==
    \/ \E m \in (0 - NegN)..MaxN : GammaEncode(m)
    \/ \E m \in (0 - NegN)..MaxN : DeltaEncode(m)
    \/ \E k \in 1..(2 * MaxN) : Truncate(k)
    \/ GammaDecode
    \/ DeltaDecode

SpecCodec == InitCodec /\ [][NextCodec]_vars

----------------------------------------------------------------------------
(* Index compression, as its callers use it *)

\* Nothing has been called: the caller holds a plaintext index of its own
\* making (valid or not), or a compressed index read back from storage.
InitIndex ==
    /\ pc = "start"
    /\ call = "none"
    /\ \/ /\ origin = "caller"
          /\ inverted_index \in Dicts(Terms, PostingLists)
          /\ compressed = EmptyMap
       \/ /\ origin = "storage"
          /\ inverted_index = EmptyMap
          /\ compressed \in Dicts(Terms, SeqsUpTo(Bit, MaxBits))
    /\ codec = "none"
    /\ dcodec = "none"
    /\ error = "none"
    /\ n = 0
    /\ codeword = <<>>
    /\ xs = <<>>
    /\ tail = <<>>
    /\ truncated = FALSE
    /\ bits = <<>>
    /\ results = <<>>
    /\ documents = <<>>
    /\ decompressed = EmptyMap
    /\ recompressed = EmptyMap

\* compressed = compress_index_gamma(inverted_index)
CompressGamma ==
    /\ pc = "start"
    /\ origin = "caller"
    /\ LET r == compress_index_gamma(inverted_index)
       IN  /\ error' = r.error
           /\ pc' = IF r.error # "none" THEN "raised" ELSE "compressed"
           /\ compressed' = IF r.error # "none" THEN compressed ELSE r.value
    /\ call' = "compress_index_gamma"
    /\ codec' = "gamma"
    /\ UNCHANGED <<origin, dcodec, documents, inverted_index, decompressed,
                   recompressed>>
    /\ UNCHANGED codecVars

\* compressed = compress_index_delta(inverted_index)
CompressDelta ==
    /\ pc = "start"
    /\ origin = "caller"
    /\ LET r == compress_index_delta(inverted_index)
       IN  /\ error' = r.error
           /\ pc' = IF r.error # "none" THEN "raised" ELSE "compressed"
           /\ compressed' = IF r.error # "none" THEN compressed ELSE r.value
    /\ call' = "compress_index_delta"
    /\ codec' = "delta"
    /\ UNCHANGED <<origin, dcodec, documents, inverted_index, decompressed,
                   recompressed>>
    /\ UNCHANGED codecVars

\* decompressed = decompress_index_gamma(compressed)
DecompressGamma ==
    /\ \/ pc = "compressed" /\ codec = "gamma"
       \/ pc = "start" /\ origin = "storage"
    /\ LET r == decompress_index_gamma(compressed)
       IN  /\ error' = r.error
           /\ pc' = IF r.error # "none" THEN "raised" ELSE "decompressed"
           /\ decompressed' = IF r.error # "none" THEN decompressed ELSE r.value
    /\ call' = "decompress_index_gamma"
    /\ dcodec' = "gamma"
    /\ UNCHANGED <<origin, codec, documents, inverted_index, compressed,
                   recompressed>>
    /\ UNCHANGED codecVars

\* decompressed = decompress_index_delta(compressed)
DecompressDelta ==
    /\ \/ pc = "compressed" /\ codec = "delta"
       \/ pc = "start" /\ origin = "storage"
    /\ LET r == decompress_index_delta(compressed)
       IN  /\ error' = r.error
           /\ pc' = IF r.error # "none" THEN "raised" ELSE "decompressed"
           /\ decompressed' = IF r.error # "none" THEN decompressed ELSE r.value
    /\ call' = "decompress_index_delta"
    /\ dcodec' = "delta"
    /\ UNCHANGED <<origin, codec, documents, inverted_index, compressed,
                   recompressed>>
    /\ UNCHANGED codecVars

\* recompressed = compress_index_gamma(decompressed)
RecompressGamma ==
    /\ pc = "decompressed"
    /\ dcodec = "gamma"
    /\ LET r == compress_index_gamma(decompressed)
       IN  /\ error' = r.error
           /\ pc' = IF r.error # "none" THEN "raised" ELSE "recompressed"
           /\ recompressed' = IF r.error # "none" THEN recompressed ELSE r.value
    /\ call' = "compress_index_gamma"
    /\ UNCHANGED <<origin, codec, dcodec, documents, inverted_index, compressed,
                   decompressed>>
    /\ UNCHANGED codecVars

\* recompressed = compress_index_delta(decompressed)
RecompressDelta ==
    /\ pc = "decompressed"
    /\ dcodec = "delta"
    /\ LET r == compress_index_delta(decompressed)
       IN  /\ error' = r.error
           /\ pc' = IF r.error # "none" THEN "raised" ELSE "recompressed"
           /\ recompressed' = IF r.error # "none" THEN recompressed ELSE r.value
    /\ call' = "compress_index_delta"
    /\ UNCHANGED <<origin, codec, dcodec, documents, inverted_index, compressed,
                   decompressed>>
    /\ UNCHANGED codecVars

NextIndex ==
    \/ CompressGamma
    \/ CompressDelta
    \/ DecompressGamma
    \/ DecompressDelta
    \/ RecompressGamma
    \/ RecompressDelta

SpecIndex == InitIndex /\ [][NextIndex]_vars

----------------------------------------------------------------------------
(* Index building, as its callers use it *)

\* Nothing has been called: the caller holds a corpus.
InitBuild ==
    /\ pc = "start"
    /\ call = "none"
    /\ origin = "caller"
    /\ documents \in Corpora(1..MaxDocs, MaxChars)
    /\ codec = "none"
    /\ dcodec = "none"
    /\ error = "none"
    /\ n = 0
    /\ codeword = <<>>
    /\ xs = <<>>
    /\ tail = <<>>
    /\ truncated = FALSE
    /\ bits = <<>>
    /\ results = <<>>
    /\ inverted_index = EmptyMap
    /\ compressed = EmptyMap
    /\ decompressed = EmptyMap
    /\ recompressed = EmptyMap

\* inverted_index = build_inverted_index(documents)
Build ==
    /\ pc = "start"
    /\ pc' = "built"
    /\ call' = "build_inverted_index"
    /\ inverted_index' = build_inverted_index(documents)
    /\ UNCHANGED <<origin, codec, dcodec, error, documents, compressed,
                   decompressed, recompressed>>
    /\ UNCHANGED codecVars

NextBuild == Build

SpecBuild == InitBuild /\ [][NextBuild]_vars

----------------------------------------------------------------------------
(* Notions the properties are stated in, defined without the code's help *)

RECURSIVE Pow2(_)
Pow2(k) == IF k <= 0 THEN 1 ELSE 2 * Pow2(k - 1)

\* the number of binary digits of m >= 1
BitLength(m) == CHOOSE L \in 1..m : Pow2(L - 1) <= m /\ m < Pow2(L)

\* the binary digits of m >= 1, most significant first, no leading zeros
BinaryDigits(m) ==
    [i \in 1..BitLength(m) |->
        IF (m \div Pow2(BitLength(m) - i)) % 2 = 1 THEN "1" ELSE "0"]

Encoders == {"elias_gamma_encode", "elias_delta_encode"}
Decoders == {"elias_gamma_decode", "elias_delta_decode"}
Compressors == {"compress_index_gamma", "compress_index_delta"}
Decompressors == {"decompress_index_gamma", "decompress_index_delta"}

\* the codeword of m under codec c
Codeword(m, c) ==
    IF c = "gamma" THEN elias_gamma_encode(m).bits ELSE elias_delta_encode(m).bits

\* the codewords of the integers of s under codec c, concatenated in order
RECURSIVE Codewords(_, _)
Codewords(s, c) ==
    IF s = <<>> THEN <<>> ELSE Codeword(Head(s), c) \o Codewords(Tail(s), c)

\* what the decoder of codec c returns
Decoded(b, c) ==
    IF c = "gamma" THEN elias_gamma_decode(b) ELSE elias_delta_decode(b)

IsPrefix(p, b) == Len(p) <= Len(b) /\ SubSeq(b, 1, Len(p)) = p

\* p is a proper prefix of the codeword of an integer in 1..MaxN
ProperPrefixOfCodeword(p, c) ==
    \E m \in 1..MaxN : IsPrefix(p, Codeword(m, c)) /\ p # Codeword(m, c)

\* a strictly increasing sequence of positive integers
ValidPostings(l) ==
    \A i \in 1..Len(l) : l[i] > (IF i = 1 THEN 0 ELSE l[i - 1])

ValidIndex(index) == \A t \in DOMAIN index : ValidPostings(index[t])

\* s[a..b] is a maximal run of word characters of s
IsWordRun(s, a, b) ==
    /\ a <= b
    /\ \A i \in a..b : s[i] \in WordChars
    /\ a = 1 \/ s[a - 1] \notin WordChars
    /\ b = Len(s) \/ s[b + 1] \notin WordChars

\* the terms that occur in a text
TermsOf(text) ==
    LET s == Lower(text)
    IN  {SubSeq(s, p[1], p[2]) :
            p \in {q \in (1..Len(s)) \X (1..Len(s)) : IsWordRun(s, q[1], q[2])}}

\* the identifiers of the documents a term occurs in
DocsContaining(t) ==
    {documents[k][1] : k \in {j \in 1..Len(documents) : t \in TermsOf(documents[j][2])}}

----------------------------------------------------------------------------
(* Properties *)

\* C1: a caller-made index whose posting lists are all strictly increasing
\* sequences of positive integers (the empty list included) is compressed
\* without error by either codec, to a dict with the same keys in which an
\* empty list gives the empty bitstring, and decompressing that dict with
\* the same codec returns the index.
C1_IndexRoundTrip ==
    (origin = "caller" /\ ValidIndex(inverted_index)) =>
        /\ error = "none"
        /\ pc \in {"compressed", "decompressed", "recompressed"} =>
              /\ DOMAIN compressed = DOMAIN inverted_index
              /\ \A t \in DOMAIN inverted_index :
                    inverted_index[t] = <<>> => compressed[t] = <<>>
        /\ pc \in {"decompressed", "recompressed"} =>
              /\ dcodec = codec
              /\ decompressed = inverted_index

C1_Witness ==
    /\ pc = "decompressed"
    /\ origin = "caller"
    /\ codec = "gamma"
    /\ inverted_index = (<<"a">> :> <<1, 3>>) @@ (<<"b">> :> <<>>)
    /\ compressed = (<<"a">> :> <<"1", "0", "1", "0">>) @@ (<<"b">> :> <<>>)
    /\ decompressed = inverted_index

\* C2: for n >= 1 of bit-length L, elias_gamma_encode(n) is L - 1 zeros
\* followed by the binary digits of n, 2 * (L - 1) + 1 bits in all;
\* 1 -> "1", 2 -> "010", 3 -> "011", 4 -> "00100".
C2_GammaCodeword ==
    (pc = "encoded" /\ call = "elias_gamma_encode") =>
        /\ n >= 1
        /\ LET N == BitLength(n) - 1
           IN  /\ Len(codeword) = 2 * N + 1
               /\ SubSeq(codeword, 1, N) = [i \in 1..N |-> "0"]
               /\ SubSeq(codeword, N + 1, 2 * N + 1) = BinaryDigits(n)
        /\ n = 1 => codeword = <<"1">>
        /\ n = 2 => codeword = <<"0", "1", "0">>
        /\ n = 3 => codeword = <<"0", "1", "1">>
        /\ n = 4 => codeword = <<"0", "0", "1", "0", "0">>

C2_Witness ==
    /\ pc = "encoded"
    /\ call = "elias_gamma_encode"
    /\ n = 6
    /\ codeword = <<"0", "0", "1", "1", "0">>

\* C3: when the bitstring is the concatenation of the codewords of xs
\* (xs possibly empty) and nothing was cut off, the decoder of the same codec
\* returns exactly xs.
C3_MultiValueDecode ==
    (/\ call \in Decoders
     /\ origin = "caller"
     /\ ~truncated
     /\ bits = Codewords(xs, dcodec)) =>
        /\ error = "none"
        /\ pc = "decoded"
        /\ results = xs

C3_Witness ==
    /\ pc = "decoded"
    /\ call = "elias_delta_decode"
    /\ codec = "delta"
    /\ ~truncated
    /\ xs = <<3, 5, 8>>
    /\ bits = Codewords(xs, "delta")
    /\ results = xs

\* C4: build_inverted_index returns a dict whose keys are exactly the terms
\* occurring in some document and whose value for a term is the non-empty,
\* strictly increasing list of the identifiers of the documents containing
\* it, whatever the order of the documents.
C4_BuildIndex ==
    pc = "built" =>
        /\ DOMAIN inverted_index =
              UNION {TermsOf(documents[k][2]) : k \in 1..Len(documents)}
        /\ \A t \in DOMAIN inverted_index :
              LET l == inverted_index[t]
              IN  /\ Len(l) >= 1
                  /\ \A i \in 2..Len(l) : l[i - 1] < l[i]
                  /\ {l[i] : i \in 1..Len(l)} = DocsContaining(t)

C4_Witness ==
    /\ pc = "built"
    /\ documents = << <<2, <<"B", " ", "B">> >>, <<1, <<"B">> >> >>
    /\ inverted_index = (<<"b">> :> <<1, 2>>)

\* C5: a call of elias_gamma_encode or elias_delta_encode with n < 1 raises
\* ValueError and returns nothing: the caller's bitstring, its last codeword
\* and the integers encoded so far stay as they were.
C5_InvalidIntegerRaises ==
    [][(call' \in Encoders /\ n' < 1) =>
          /\ error' = "ValueError"
          /\ pc' = "raised"
          /\ codeword' = codeword
          /\ bits' = bits
          /\ xs' = xs]_vars

C5_Witness ==
    /\ call = "elias_gamma_encode"
    /\ n = 0
    /\ pc = "raised"
    /\ error = "ValueError"
    /\ xs = <<2>>

\* C6: compressing, with either codec, a caller-made index in which some
\* posting list starts at 0 or below or has an element not greater than its
\* predecessor raises ValueError: no dict is returned and the index is
\* unchanged.
C6_InvalidGapRejected ==
    [][(/\ pc = "start"
        /\ origin = "caller"
        /\ ~ValidIndex(inverted_index)
        /\ call' \in Compressors) =>
          /\ error' = "ValueError"
          /\ pc' = "raised"
          /\ compressed' = compressed
          /\ inverted_index' = inverted_index]_vars

C6_Witness ==
    /\ pc = "raised"
    /\ call = "compress_index_delta"
    /\ error = "ValueError"
    /\ inverted_index = (<<"a">> :> <<1, 2>>) @@ (<<"b">> :> <<2, 2>>)
    /\ compressed = EmptyMap

\* C7: for n >= 1 of bit-length L, elias_delta_encode(n) is
\* elias_gamma_encode(L) followed by the L - 1 binary digits of n after the
\* leading 1; 1 -> "1", 2 -> "0100".
C7_DeltaCodeword ==
    (pc = "encoded" /\ call = "elias_delta_encode") =>
        /\ n >= 1
        /\ LET L == BitLength(n)
               B == BinaryDigits(n)
           IN  codeword = elias_gamma_encode(L).bits \o SubSeq(B, 2, L)
        /\ n = 1 => codeword = <<"1">>
        /\ n = 2 => codeword = <<"0", "1", "0", "0">>

C7_Witness ==
    /\ pc = "encoded"
    /\ call = "elias_delta_encode"
    /\ n = 5
    /\ codeword = <<"0", "1", "1", "0", "1">>

\* C8: no decoder raises, whatever the bitstring; and when the bitstring is
\* the codewords of xs followed by a proper prefix of one more codeword of
\* the same codec, the decoder returns exactly xs.
C8_TruncationTolerance ==
    /\ call \in Decoders => (error = "none" /\ pc = "decoded")
    /\ (/\ call \in Decoders
        /\ origin = "caller"
        /\ truncated
        /\ ProperPrefixOfCodeword(tail, dcodec)
        /\ bits = Codewords(xs, dcodec) \o tail) =>
           results = xs

C8_Witness ==
    /\ pc = "decoded"
    /\ call = "elias_delta_decode"
    /\ truncated
    /\ xs = <<2, 1>>
    /\ tail = <<"0", "1", "1", "0">>
    /\ bits = Codewords(xs, "delta") \o tail
    /\ results = xs

\* C9: decompressing any dict of bitstrings, with either codec, raises
\* nothing and returns a dict with the same keys whose values are strictly
\* increasing sequences of positive integers; every integer the decoder
\* returns is at least 1.
C9_DecompressedValid ==
    /\ call \in Decompressors => (error = "none" /\ pc = "decompressed")
    /\ pc \in {"decompressed", "recompressed"} =>
          /\ DOMAIN decompressed = DOMAIN compressed
          /\ ValidIndex(decompressed)
          /\ \A t \in DOMAIN compressed :
                LET r == Decoded(compressed[t], dcodec).results
                IN  \A i \in 1..Len(r) : r[i] >= 1

C9_Witness ==
    /\ pc = "decompressed"
    /\ origin = "storage"
    /\ dcodec = "delta"
    /\ <<"a">> \in DOMAIN compressed
    /\ compressed[<<"a">>] = <<"1", "0", "1", "0", "0">>
    /\ decompressed[<<"a">>] = <<1, 3>>

\* C10: compressing what a decompressor returned, with the same codec,
\* succeeds and gives for every term a prefix of the term's bitstring, the
\* bits left over holding no complete codeword; it gives back the bitstring
\* itself when that came from the compressor; and two terms of a compressed
\* index have the same bitstring only if they have the same posting list.
C10_CanonicalReencoding ==
    /\ (call \in Compressors /\ dcodec # "none") =>
          (error = "none" /\ pc = "recompressed")
    /\ pc = "recompressed" =>
          /\ DOMAIN recompressed = DOMAIN compressed
          /\ \A t \in DOMAIN compressed :
                /\ IsPrefix(recompressed[t], compressed[t])
                /\ Decoded(SubSeq(compressed[t], Len(recompressed[t]) + 1,
                                  Len(compressed[t])), dcodec).results = <<>>
          /\ origin = "caller" => recompressed = compressed
    /\ (pc = "compressed" /\ origin = "caller") =>
          \A t1, t2 \in DOMAIN compressed :
              compressed[t1] = compressed[t2] =>
                  inverted_index[t1] = inverted_index[t2]

C10_Witness ==
    /\ pc = "recompressed"
    /\ origin = "storage"
    /\ dcodec = "gamma"
    /\ <<"a">> \in DOMAIN compressed
    /\ compressed[<<"a">>] = <<"0", "1", "1", "1", "0">>
    /\ decompressed[<<"a">>] = <<3, 4>>
    /\ recompressed[<<"a">>] = <<"0", "1", "1", "1">>

====
